---- MODULE Spec2Model ----
(***************************************************************************)
(* Model of the SEP assignment solver (src/project/solver.py) and of the   *)
(* process harness that runs it (src/project/solver_process.py).           *)
(*                                                                         *)
(* SolverSpec : SEPAssignmentSolver built from an Instance and solved by   *)
(*              the engine (Gurobi, hierarchical multi-objective).         *)
(* Spec       : SEPSolverProcess, its worker process running the solver,   *)
(*              the two pipes between them and the caller's calls.         *)
(***************************************************************************)
EXTENDS Integers, Sequences, FiniteSets, TLC

VARIABLES
    instance,        \* the Instance handed to SEPAssignmentSolver / SEPSolverProcess
    spc,             \* position of the solver: "new", "built", "optimized", "returned", "raised"
    vars,            \* keys (student id, project id) of _AssignmentVariables._vars
    status,          \* engine status after optimize()
    solCount,        \* number of solutions the engine holds (0: reading x.X raises)
    X,               \* keys whose variable has value 1 in the engine's solution
    solution,        \* the Solution returned by solve(): a list of (student id, project id)
    config_options,  \* SEPSolverProcess.config_options
    process,         \* SEPSolverProcess.process: "initial", "started", "closed"
    self_solution,   \* SEPSolverProcess._solution
    shared_bound,    \* SEPSolverProcess._shared_bound_value.value
    shared_objective,\* SEPSolverProcess._shared_objective_value.value
    log_pipe,        \* messages written to _log_pipe[1] and not yet received
    solution_pipe,   \* chunks of the result message buffered in _solution_pipe
    closes,          \* number of close() calls made on each connection end
    pc,              \* position of the caller: "idle" or inside a call
    logs,            \* get_log(): the local list logs
    solution_data,   \* get_solution(): the local solution_data
    recvd,           \* chunks of the result message recv() has taken so far
    tornDown,        \* __del__ has run
    wpc,             \* position of the worker in _entry_point_solver_process
    exitcode,        \* Process.exitcode of the worker
    sigint,          \* a SIGINT sent to the worker and not yet handled
    sigterm,         \* a SIGTERM sent to the worker and not yet handled
    sendLeft,        \* chunks of the result message the worker has still to write
    sent_log,        \* history: every line the worker has sent, in order
    got_log,         \* history: the results of the completed get_log() calls, concatenated
    gsResult,        \* history: what the last completed get_solution() returned
    everSolution,    \* history: some get_solution() has returned a Solution
    pendingAtCall,   \* history: the result channel held data when the last get_solution() began
    interruptedEarly,\* history: interrupt() was called on a live worker whose engine had not finished
    lastInterrupt,   \* history: what the last interrupt() did: "sent", "nothing", "ValueError"
    loop,            \* history: how the page's polling loop ended: "polling", "finished", or the exception
    verdict,         \* history: what the verification of __main__, or the page, did with a Solution
    stats            \* history: the last SolutionStatCalculator call: its result and how often it was repeated

solverVars == <<instance, spc, vars, status, solCount, X, solution>>

callerVars == <<config_options, process, self_solution, shared_bound, shared_objective,
                pc, logs, solution_data, recvd, tornDown>>
channelVars == <<log_pipe, solution_pipe, closes>>
workerVars == <<wpc, exitcode, sigint, sigterm, sendLeft>>
historyVars == <<sent_log, got_log, gsResult, everSolution, pendingAtCall, interruptedEarly, lastInterrupt, loop, verdict, stats>>
harnessVars == <<callerVars, channelVars, workerVars, historyVars>>
allVars == <<solverVars, harnessVars>>

\* ---------------------------------------------------------------- bounds

\* number of students of an Instance
NumStudents == 2

\* number of log lines the engine emits during one optimize()
MaxLogs == 2

\* number of messages the log pipe buffers before send() blocks
LogPipeCap == 1

\* number of chunks the solution pipe buffers before send() blocks
SolPipeCap == 2

\* number of pairs of a Solution handed to the verification
MaxAssignments == 2

\* number of repeated calls of one SolutionStatCalculator method that are counted
MaxCalls == 2

\* ------------------------------------------------------------- instances

\* Python's None, and a Solution (its model_dump() is the same record)
None == [none |-> TRUE]

\* no get_solution() call has returned yet
NotCalled == [notcalled |-> TRUE]
Solution(assignments) == [assignments |-> assignments]

\* the methods of SolutionStatCalculator that return a statistic, and the number
\* of students with a neutral project that printStats() prints
Methods ==
    { "count_preferred_assignments", "count_disliked_assignments",
      "count_difference_from_optimal_size", "count_skillDiff_per_project",
      "count_groups_min_2_skilled", "potential_use", "printStats" }

\* Instance.programming_languages
programming_languages == <<"py">>
LangIdx == 1 .. Len(programming_languages)

\* skill levels of Student.programing_skills: none, beginner, intermediate
SkillLevels == 0 .. 2

\* Student.projects / Student.negatives of one student
Dispositions ==
    << [projects |-> {},  negatives |-> {}],
       [projects |-> {0}, negatives |-> {}],
       [projects |-> {},  negatives |-> {0}],
       [projects |-> {1}, negatives |-> {0}] >>

\* the students an Instance is made of: disposition, role (Student.skill) and level
\* in each language, numbered so that a list of students can be taken in one order
ProfileIdx == 0 .. (Len(Dispositions) * 2 * Cardinality(SkillLevels) - 1)
StudentProfile(n) ==
    LET d  == Dispositions[(n \div (2 * Cardinality(SkillLevels))) + 1]
        r  == (n \div Cardinality(SkillLevels)) % 2
        lv == n % Cardinality(SkillLevels)
    IN [projects |-> d.projects, negatives |-> d.negatives, skill |-> r,
        programing_skills |-> [l \in {programming_languages[k] : k \in LangIdx} |-> lv]]

Student(i, prof) ==
    [id |-> i, projects |-> prof.projects, negatives |-> prof.negatives,
     skill |-> prof.skill, programing_skills |-> prof.programing_skills]

\* lists of NumStudents students; students are interchangeable, so one order of
\* every multiset of profiles is taken
StudentLists ==
    { [i \in 1 .. NumStudents |-> Student(i - 1, StudentProfile(f[i]))] :
        f \in { g \in [1 .. NumStudents -> ProfileIdx] :
                   \A i \in 1 .. (NumStudents - 1) : g[i] <= g[i + 1] } }

\* min / opt / max / language_requirements of one project
ProjectShapes ==
    { [min |-> 0, opt |-> 0, max |-> 1, language_requirements |-> <<0>>],
      [min |-> 0, opt |-> 1, max |-> 2, language_requirements |-> <<0>>],
      [min |-> 0, opt |-> 0, max |-> 2, language_requirements |-> <<1>>],
      [min |-> 1, opt |-> 1, max |-> 1, language_requirements |-> <<0>>] }

Project(i, sh) ==
    [id |-> i, min |-> sh.min, opt |-> sh.opt, max |-> sh.max,
     language_requirements |-> sh.language_requirements]

ProjectLists ==
    { [i \in 1 .. 2 |-> Project(i - 1, f[i])] : f \in [1 .. 2 -> ProjectShapes] }

Instances ==
    { [students |-> ss, projects |-> ps, programming_languages |-> programming_languages] :
        ss \in StudentLists, ps \in ProjectLists }

\* ----------------------------------------------------------------- helpers

Range(s) == { s[i] : i \in DOMAIN s }

RECURSIVE SumF(_, _)
SumF(f, S) ==
    IF S = {} THEN 0
    ELSE LET e == CHOOSE e \in S : TRUE IN f[e] + SumF(f, S \ {e})

Abs(n) == IF n < 0 THEN -n ELSE n

Max(S) == CHOOSE m \in S : \A n \in S : n <= m

\* SEPAssignmentSolver._students / ._projects : id -> record
StudentOf(inst, s) == CHOOSE st \in Range(inst.students) : st.id = s
ProjectOf(inst, p) == CHOOSE pr \in Range(inst.projects) : pr.id = p

\* ---------------------------------------------------------- model building

\* _AssignmentVariables.__init__: one binary variable per (student, project)
AssignmentVariables(inst) ==
    { <<st.id, pr.id>> : st \in Range(inst.students), pr \in Range(inst.projects) }

\* sum(x for (s, p), x in vars if p == project.id)
StudentsInProject(Y, p) == Cardinality({ v \in Y : v[2] = p })

\* sum(x for (s, p), x in vars if s == student.id)
ProjectsOfStudent(Y, s) == Cardinality({ v \in Y : v[1] = s })

\* the project constraints without the upper bound
ProjectConstraintsNoMax(inst, Y) ==
    \A pr \in Range(inst.projects) : pr.min <= StudentsInProject(Y, pr.id)

\* the project constraints without the lower bound
ProjectConstraintsNoMin(inst, Y) ==
    \A pr \in Range(inst.projects) : pr.max >= StudentsInProject(Y, pr.id)

ProjectConstraints(inst, Y) ==
    \A pr \in Range(inst.projects) :
        /\ pr.max >= StudentsInProject(Y, pr.id)
        /\ pr.min <= StudentsInProject(Y, pr.id)

\* the student constraints left out
StudentConstraintsNone(inst, Y) == TRUE

StudentConstraints(inst, Y) ==
    \A st \in Range(inst.students) : 1 >= ProjectsOfStudent(Y, st.id)

\* the language constraints summing over all projects' variables
LanguageConstraintsAnyProject(inst, Y) ==
    \A pr \in Range(inst.projects) : \A k \in LangIdx :
        SumF([v \in Y |-> StudentOf(inst, v[1]).programing_skills[inst.programming_languages[k]]], Y)
          >= pr.language_requirements[k]

\* sum(x * skill(s, lang) for (s, p), x in vars if p == project.id) >= requirement
LanguageConstraints(inst, Y) ==
    \A pr \in Range(inst.projects) : \A k \in LangIdx :
        SumF([v \in Y |-> StudentOf(inst, v[1]).programing_skills[inst.programming_languages[k]]],
             { v \in Y : v[2] = pr.id })
          >= pr.language_requirements[k]

\* the constraints on the assignment variables; the constraints on abs_diff,
\* opt_size_diff and skill_coverage only bound those helper variables
HardConstraints(inst, Y) ==
    /\ ProjectConstraints(inst, Y)
    /\ StudentConstraints(inst, Y)
    /\ LanguageConstraints(inst, Y)

Feasible(inst) ==
    { W : W \in { Y \in SUBSET AssignmentVariables(inst) : HardConstraints(inst, Y) } }

\* ------------------------------------------------------------ objectives

\* Objective 1: sum(x if p not in negatives else 0)
Objective1(inst, Y) == Cardinality({ v \in Y : v[2] \notin StudentOf(inst, v[1]).negatives })

\* objective 2 with the rewards exchanged: 2 for a project that is not preferred
Objective2NeutralFirst(inst, Y) ==
    SumF([v \in Y |-> IF v[2] \notin StudentOf(inst, v[1]).projects THEN 2 ELSE 1], Y)

\* Objective 2: sum(x if p not in projects else 2 * x)
Objective2(inst, Y) ==
    SumF([v \in Y |-> IF v[2] \notin StudentOf(inst, v[1]).projects THEN 1 ELSE 2], Y)

\* largest value skill_coverage[p, k] can take: <= number of assigned students
\* with level >= 2 when required, == 0 when not required
SkillCoverageMax(inst, Y, pr, k) ==
    IF pr.language_requirements[k] = 1
    THEN IF \E v \in Y : /\ v[2] = pr.id
                         /\ StudentOf(inst, v[1]).programing_skills[inst.programming_languages[k]] >= 2
         THEN 1 ELSE 0
    ELSE 0

\* a model without the constraint skill_coverage[p, k] == 0 for a language
\* that is not required
SkillCoverageKeysUnforced(inst, Y) ==
    { pr.id : pr \in Range(inst.projects) } \X LangIdx

\* the keys (project id, k) whose skill_coverage[p, k] the constraints allow to be 1
SkillCoverageKeys(inst, Y) ==
    { c \in { pr.id : pr \in Range(inst.projects) } \X LangIdx :
        \E pr \in Range(inst.projects) : pr.id = c[1] /\ SkillCoverageMax(inst, Y, pr, c[2]) = 1 }

\* Objective 3: sum of skill_coverage[p, k]
Objective3(inst, Y) ==
    SumF([c \in Range(inst.projects) \X LangIdx |-> SkillCoverageMax(inst, Y, c[1], c[2])],
         Range(inst.projects) \X LangIdx)

\* smallest value of opt_size_diff[p]: >= count - opt and >= opt - count
OptSizeDiffMin(Y, pr) == Abs(StudentsInProject(Y, pr.id) - pr.opt)

\* Objective 4: -sum(opt_size_diff)
Objective4(inst, Y) ==
    0 - SumF([pr \in Range(inst.projects) |-> OptSizeDiffMin(Y, pr)], Range(inst.projects))

\* smallest value of abs_diff[p]: >= writers - programmers and >= programmers - writers
AbsDiffMin(inst, Y, pr) ==
    Abs(Cardinality({ v \in Y : v[2] = pr.id /\ StudentOf(inst, v[1]).skill = 0 })
        - Cardinality({ v \in Y : v[2] = pr.id /\ StudentOf(inst, v[1]).skill = 1 }))

\* Objective 5: -sum(abs_diff)
Objective5(inst, Y) ==
    0 - SumF([pr \in Range(inst.projects) |-> AbsDiffMin(inst, Y, pr)], Range(inst.projects))

\* Objective 6: students assigned to a project requiring one of their skills
Objective6(inst, Y) ==
    Cardinality({ v \in Y : \E k \in LangIdx :
        /\ ProjectOf(inst, v[2]).language_requirements[k] = 1
        /\ StudentOf(inst, v[1]).programing_skills[inst.programming_languages[k]] >= 1 })

ObjectiveN(inst, Y, index) ==
    CASE index = 0 -> Objective1(inst, Y)
      [] index = 1 -> Objective2(inst, Y)
      [] index = 2 -> Objective3(inst, Y)
      [] index = 3 -> Objective4(inst, Y)
      [] index = 4 -> Objective5(inst, Y)
      [] index = 5 -> Objective6(inst, Y)

\* the setObjectiveN calls with one priority for all terms
ObjectiveTermsOnePriority ==
    { [index |-> 0, priority |-> 1, weight2 |-> 4],
      [index |-> 1, priority |-> 1, weight2 |-> 4],
      [index |-> 2, priority |-> 1, weight2 |-> 2],
      [index |-> 3, priority |-> 1, weight2 |-> 1],
      [index |-> 4, priority |-> 1, weight2 |-> 2],
      [index |-> 5, priority |-> 1, weight2 |-> 2] }

\* the setObjectiveN calls: index, priority and weight (in halves: 0.5 is 1)
ObjectiveTerms ==
    { [index |-> 0, priority |-> 6, weight2 |-> 4],
      [index |-> 1, priority |-> 5, weight2 |-> 4],
      [index |-> 2, priority |-> 4, weight2 |-> 2],
      [index |-> 3, priority |-> 3, weight2 |-> 1],
      [index |-> 4, priority |-> 2, weight2 |-> 2],
      [index |-> 5, priority |-> 1, weight2 |-> 2] }

\* ----------------------------------------------------------------- engine

\* terms sharing a priority are combined by weighted sum
Blend(inst, Y, terms, prio) ==
    LET same == { t \in terms : t.priority = prio }
    IN SumF([t \in same |-> t.weight2 * ObjectiveN(inst, Y, t.index)], same)

\* hierarchical multi-objective optimization, ModelSense = -1 (maximize): the
\* highest priority first, each later pass restricted to the optima of the earlier
RECURSIVE Hierarchical(_, _, _, _)
Hierarchical(inst, cands, terms, prios) ==
    UNION { IF prios = {} \/ c = {} THEN c
            ELSE UNION { UNION { Hierarchical(inst, { Y \in c : val[Y] = best }, terms, prios \ {pr}) :
                                     best \in { Max({ val[Y] : Y \in c }) } } :
                             pr \in { Max(prios) },
                             val \in { [Y \in c |-> Blend(inst, Y, terms, Max(prios))] } } :
            c \in { cands } }

Optimal(inst) ==
    Hierarchical(inst, Feasible(inst), ObjectiveTerms, { t.priority : t \in ObjectiveTerms })

\* _AssignmentVariables.as_dict and list(dict.items()): a dict keyed by student,
\* filled in the order of _vars (students outer, projects inner), a later value
\* for the same student replacing the earlier one
RECURSIVE AsDictItems(_, _, _)
AsDictItems(inst, Y, i) ==
    IF i > Len(inst.students) THEN << >>
    ELSE LET s  == inst.students[i].id
             js == { j \in 1 .. Len(inst.projects) : <<s, inst.projects[j].id>> \in Y }
         IN (IF js = {} THEN << >> ELSE << <<s, inst.projects[Max(js)].id>> >>)
            \o AsDictItems(inst, Y, i + 1)

\* ---------------------------------------------------------------- actions

\* the connection ends: the four the parent holds, and the two handed to the worker
ParentEnds == {"_log_pipe[0]", "_log_pipe[1]", "_solution_pipe[0]", "_solution_pipe[1]"}
WorkerEnds == {"log_conn", "solution_conn"}
ConnectionEnds == ParentEnds \cup WorkerEnds

\* a SEPAssignmentSolver before its construction
SolverNew ==
    /\ spc = "new"
    /\ vars = {}
    /\ status = "LOADED"
    /\ solCount = 0
    /\ X = {}
    /\ solution = None

\* SEPSolverProcess.__init__, and no call made yet
HarnessNew ==
    /\ process = "initial"
    /\ self_solution = None
    /\ shared_bound = "-inf"
    /\ shared_objective = "inf"
    /\ log_pipe = << >>
    /\ solution_pipe = 0
    /\ closes = [e \in ConnectionEnds |-> 0]
    /\ pc = "idle"
    /\ logs = << >>
    /\ solution_data = None
    /\ recvd = 0
    /\ tornDown = FALSE
    /\ wpc = "none"
    /\ exitcode = "None"
    /\ sigint = FALSE
    /\ sigterm = FALSE
    /\ sendLeft = 0
    /\ sent_log = << >>
    /\ got_log = << >>
    /\ gsResult = NotCalled
    /\ everSolution = FALSE
    /\ pendingAtCall = FALSE
    /\ interruptedEarly = FALSE
    /\ lastInterrupt = "none"
    /\ loop = "polling"
    /\ verdict = "none"
    /\ stats = NotCalled

\* the values the engine can hold for the helper variables _skill_coverage
\* beside the assignment Y, as sets of the keys at 1: solve() reads none of
\* them. Any values within the constraints at an incumbent; after a completed
\* optimization those whose sum is the value of objective 3
SkillCoverageValues(inst, st, Y) ==
    { h \in SUBSET SkillCoverageKeys(inst, Y) :
        st = "OPTIMAL" => Cardinality(h) = Objective3(inst, Y) }

\* the solver used on its own: no harness is started
SolverInit ==
    /\ instance \in Instances
    /\ SolverNew
    /\ config_options = None
    /\ HarnessNew

\* SEPAssignmentSolver.__init__
Construct ==
    /\ spc = "new"
    /\ spc' = "built"
    /\ vars' = AssignmentVariables(instance)
    /\ UNCHANGED <<instance, status, solCount, X, solution>>

\* self._model.optimize(callback) running to completion
OptimizeCompleted ==
    /\ spc = "built"
    /\ spc' = "optimized"
    /\ \E optimal \in { Optimal(instance) } :
          IF optimal = {}
          THEN status' = "INFEASIBLE" /\ solCount' = 0 /\ X' = {}
          ELSE status' = "OPTIMAL" /\ solCount' = 1 /\ X' \in optimal
    /\ UNCHANGED <<instance, vars, solution>>

\* self._model.optimize(callback) stopped by SIGINT: the incumbent, if there is one
OptimizeInterrupted ==
    /\ spc = "built"
    /\ spc' = "optimized"
    /\ status' = "INTERRUPTED"
    /\ \/ solCount' = 0 /\ X' = {}
       \/ solCount' = 1 /\ X' \in Feasible(instance)
    /\ UNCHANGED <<instance, vars, solution>>

\* return Solution(assignments=list(self._assignment_vars.as_dict().items()))
ReturnSolution ==
    /\ spc = "optimized"
    /\ solCount > 0
    /\ spc' = "returned"
    /\ solution' = Solution(AsDictItems(instance, X, 1))
    /\ UNCHANGED <<instance, vars, status, solCount, X>>

\* x.X of a model without a solution raises
ReturnRaises ==
    /\ spc = "optimized"
    /\ solCount = 0
    /\ spc' = "raised"
    /\ UNCHANGED <<instance, vars, status, solCount, X, solution>>

SolverNext ==
    \/ Construct /\ UNCHANGED harnessVars
    \/ OptimizeCompleted /\ UNCHANGED harnessVars
    \/ OptimizeInterrupted /\ UNCHANGED harnessVars
    \/ ReturnSolution /\ UNCHANGED harnessVars
    \/ ReturnRaises /\ UNCHANGED harnessVars

SolverSpec == SolverInit /\ [][SolverNext]_allVars

\* ------------------------------------------------------ harness: inputs

\* config_options: the strict and the loose configuration
Strict == [strict |-> TRUE]
Loose == [strict |-> FALSE]
ConfigOptions == { Strict, Loose }

Lang(lv) == [l \in { programming_languages[k] : k \in LangIdx } |-> lv]

\* a student without preferences who knows the language, and one who dislikes
\* project 0 and does not know it
HarnessStudents ==
    << Student(0, [projects |-> {}, negatives |-> {}, skill |-> 0, programing_skills |-> Lang(1)]),
       Student(1, [projects |-> {}, negatives |-> {0}, skill |-> 0, programing_skills |-> Lang(0)]) >>

\* a feasible Instance (project 1 requires the language), an infeasible one
\* (both projects require the language, one student knows it), one whose
\* project 0 has min above max, and one whose projects hold one student in all
HarnessInstances ==
    { [students |-> HarnessStudents,
       projects |-> << Project(0, [min |-> 0, opt |-> 1, max |-> 2, language_requirements |-> <<0>>]),
                       Project(1, [min |-> 0, opt |-> 0, max |-> 1, language_requirements |-> <<1>>]) >>,
       programming_languages |-> programming_languages],
      [students |-> HarnessStudents,
       projects |-> << Project(0, [min |-> 1, opt |-> 1, max |-> 1, language_requirements |-> <<1>>]),
                       Project(1, [min |-> 0, opt |-> 0, max |-> 1, language_requirements |-> <<1>>]) >>,
       programming_languages |-> programming_languages],
      [students |-> HarnessStudents,
       projects |-> << Project(0, [min |-> 2, opt |-> 1, max |-> 1, language_requirements |-> <<0>>]),
                       Project(1, [min |-> 0, opt |-> 0, max |-> 1, language_requirements |-> <<0>>]) >>,
       programming_languages |-> programming_languages],
      [students |-> HarnessStudents,
       projects |-> << Project(0, [min |-> 0, opt |-> 1, max |-> 1, language_requirements |-> <<0>>]),
                       Project(1, [min |-> 0, opt |-> 0, max |-> 0, language_requirements |-> <<0>>]) >>,
       programming_languages |-> programming_languages] }

\* ----------------------------------------------- harness: process and pipes

\* Process.is_alive() of a process object that is not closed
IsAlive == process = "started" /\ wpc # "exited"

\* SEPSolverProcess.is_running(): is_alive() of a closed process object raises
is_running ==
    IF process = "closed" THEN "ValueError"
    ELSE IF IsAlive THEN "True" ELSE "False"

\* Solution.model_dump(), the payload of the result message
model_dump(sol) == [assignments |-> sol.assignments]

\* chunks a result message takes in the pipe: a header and one per pair
MsgSize(data) == 1 + Len(data.assignments)

\* the n-th line the engine logs
LogLine(n) == ToString(n)

\* the parent closes its copies of the ends it hands to the worker
ParentDropsChildEnds == FALSE

\* SEPSolverProcess keeps _log_pipe[1] and _solution_pipe[1] open
ParentKeepsChildEnds == TRUE

\* a pipe whose write ends are all closed reads end-of-file
EndOfFile == ~ ParentKeepsChildEnds /\ wpc = "exited"

\* Connection.poll(): data, or end-of-file, is there to read
LogPoll == log_pipe # << >> \/ EndOfFile
SolPoll == solution_pipe > 0 \/ EndOfFile

\* logs.extend(msg) the wrong way round
LogsPrepend(ls, msg) == msg \o ls

\* logs.extend(self._log_pipe[0].recv())
LogsExtend(ls, msg) == ls \o msg

\* get_solution() returning what this call received, without self._solution
CacheForgets(cached, data) ==
    IF data # None THEN Solution(data.assignments) ELSE None

\* if solution_data is not None: self._solution = Solution(**solution_data)
CacheSolution(cached, data) ==
    IF data # None THEN Solution(data.assignments) ELSE cached

fixedVars == <<instance, config_options, shared_bound, shared_objective>>

HarnessInit ==
    /\ instance \in HarnessInstances
    /\ config_options \in ConfigOptions
    /\ SolverNew
    /\ HarnessNew

\* ------------------------------------------------- harness: caller's calls

\* start()
Start ==
    /\ pc = "idle"
    /\ process = "initial"
    /\ ~ tornDown
    /\ process' = "started"
    /\ wpc' = "boot"
    /\ UNCHANGED <<solverVars, fixedVars, self_solution, pc, logs, solution_data, recvd,
                   tornDown, channelVars, exitcode, sigint, sigterm, sendLeft, historyVars>>

\* interrupt() sending SIGINT whenever the process has a pid
InterruptConditionPidOnly == process = "started"

\* if self.process.pid and self.process.is_alive()
InterruptCondition == process = "started" /\ IsAlive

\* interrupt(): os.kill(pid, SIGINT) when the process is alive; the pid of a
\* closed process object raises ValueError
Interrupt ==
    /\ pc = "idle"
    /\ IF process = "closed"
       THEN /\ lastInterrupt' = "ValueError"
            /\ UNCHANGED <<sigint, interruptedEarly>>
       ELSE IF InterruptCondition
            THEN /\ sigint' = TRUE
                 /\ interruptedEarly' = (interruptedEarly \/ spc \in {"new", "built"})
                 /\ lastInterrupt' = "sent"
            ELSE /\ lastInterrupt' = "nothing"
                 /\ UNCHANGED <<sigint, interruptedEarly>>
    /\ UNCHANGED <<solverVars, fixedVars, process, self_solution, pc, logs, solution_data,
                   recvd, tornDown, channelVars, wpc, exitcode, sigterm, sendLeft,
                   sent_log, got_log, gsResult, everSolution, pendingAtCall, loop, verdict, stats>>

\* get_log(): logs = [] and the first poll()
GetLog ==
    /\ pc = "idle"
    /\ IF LogPoll
       THEN IF log_pipe # << >>
            THEN /\ logs' = LogsExtend(<< >>, Head(log_pipe))
                 /\ log_pipe' = Tail(log_pipe)
                 /\ pc' = "get_log"
            ELSE /\ pc' = "get_log_EOFError"
                 /\ UNCHANGED <<logs, log_pipe>>
       ELSE UNCHANGED <<pc, logs, log_pipe>>
    /\ UNCHANGED <<solverVars, fixedVars, process, self_solution, solution_data, recvd,
                   tornDown, solution_pipe, closes, workerVars, historyVars>>

\* get_log(): a later poll(), then recv() or return logs
GetLogLoop ==
    /\ pc = "get_log"
    /\ IF LogPoll
       THEN IF log_pipe # << >>
            THEN /\ logs' = LogsExtend(logs, Head(log_pipe))
                 /\ log_pipe' = Tail(log_pipe)
                 /\ UNCHANGED <<pc, got_log>>
            ELSE /\ pc' = "get_log_EOFError"
                 /\ UNCHANGED <<logs, log_pipe, got_log>>
       ELSE /\ got_log' = got_log \o logs
            /\ logs' = << >>
            /\ pc' = "idle"
            /\ UNCHANGED log_pipe
    /\ UNCHANGED <<solverVars, fixedVars, process, self_solution, solution_data, recvd,
                   tornDown, solution_pipe, closes, workerVars, sent_log, gsResult, everSolution,
                   pendingAtCall, interruptedEarly, lastInterrupt, loop, verdict, stats>>

\* get_solution(): solution_data = None and the first poll()
GetSolution ==
    /\ pc = "idle"
    /\ pendingAtCall' = (solution_pipe > 0)
    /\ IF SolPoll
       THEN /\ pc' = "gs_recv"
            /\ UNCHANGED <<self_solution, gsResult, everSolution>>
       ELSE /\ self_solution' = CacheSolution(self_solution, solution_data)
            /\ gsResult' = self_solution'
            /\ everSolution' = (everSolution \/ self_solution' # None)
            /\ UNCHANGED pc
    /\ UNCHANGED <<solverVars, fixedVars, process, logs, solution_data, recvd, tornDown,
                   channelVars, workerVars, sent_log, got_log, interruptedEarly, lastInterrupt, loop, verdict, stats>>

\* get_solution(): recv() takes what is buffered and returns the message once it
\* is complete; it waits while the message is incomplete
GetSolutionRecv ==
    /\ pc = "gs_recv"
    /\ IF solution_pipe > 0
       THEN /\ recvd' = recvd + solution_pipe
            /\ solution_pipe' = 0
            /\ IF recvd' = MsgSize(model_dump(solution))
               THEN solution_data' = model_dump(solution) /\ pc' = "gs_poll"
               ELSE UNCHANGED <<solution_data, pc>>
       ELSE /\ EndOfFile
            /\ pc' = "get_solution_EOFError"
            /\ UNCHANGED <<recvd, solution_pipe, solution_data>>
    /\ UNCHANGED <<solverVars, fixedVars, process, self_solution, logs, tornDown, log_pipe, closes,
                   workerVars, historyVars>>

\* get_solution(): a later poll(), then recv() or the return
GetSolutionLoop ==
    /\ pc = "gs_poll"
    /\ IF SolPoll
       THEN /\ pc' = "gs_recv"
            /\ UNCHANGED <<self_solution, solution_data, gsResult, everSolution>>
       ELSE /\ self_solution' = CacheSolution(self_solution, solution_data)
            /\ gsResult' = self_solution'
            /\ everSolution' = (everSolution \/ self_solution' # None)
            /\ solution_data' = None
            /\ pc' = "idle"
    /\ UNCHANGED <<solverVars, fixedVars, process, logs, recvd, tornDown, channelVars,
                   workerVars, sent_log, got_log, pendingAtCall, interruptedEarly, lastInterrupt, loop, verdict, stats>>

\* the page's polling loop once is_running() is False: solution = get_solution(),
\* then SolutionStatCalculator(instance, solution).printStats(), whose first
\* statement iterates over self.solution.assignments; recv() waits for ever on
\* a message a killed worker left incomplete
PollingLoopResult ==
    /\ pc = "idle"
    /\ loop = "polling"
    /\ is_running = "False"
    /\ process = "started"
    /\ solution_pipe > 0 => recvd + solution_pipe = MsgSize(model_dump(solution))
    /\ pendingAtCall' = (solution_pipe > 0)
    /\ IF EndOfFile /\ solution_pipe = 0
       THEN /\ loop' = "EOFError"
            /\ UNCHANGED <<self_solution, recvd, solution_pipe, gsResult, everSolution>>
       ELSE /\ LET data == IF solution_pipe > 0 THEN model_dump(solution) ELSE None
               IN self_solution' = CacheSolution(self_solution, data)
            /\ recvd' = recvd + solution_pipe
            /\ solution_pipe' = 0
            /\ gsResult' = self_solution'
            /\ everSolution' = (everSolution \/ self_solution' # None)
            /\ loop' = IF self_solution' = None THEN "AttributeError" ELSE "finished"
    /\ UNCHANGED <<solverVars, fixedVars, process, pc, logs, solution_data, tornDown,
                   log_pipe, closes, workerVars, sent_log, got_log, interruptedEarly, lastInterrupt,
                   verdict, stats>>

\* __del__(): nothing to do for a process that is not alive, else interrupt()
Del ==
    /\ pc = "idle"
    /\ ~ tornDown
    /\ IF IsAlive
       THEN /\ sigint' = TRUE
            /\ pc' = "del_join"
            /\ UNCHANGED tornDown
       ELSE /\ tornDown' = TRUE
            /\ UNCHANGED <<sigint, pc>>
    /\ UNCHANGED <<solverVars, fixedVars, process, self_solution, logs, solution_data, recvd,
                   channelVars, wpc, exitcode, sigterm, sendLeft, historyVars>>

\* __del__(): join(timeout=1) is over; terminate() when the process is still alive
DelJoin ==
    /\ pc = "del_join"
    /\ sigterm' = IsAlive
    /\ pc' = "del_close"
    /\ UNCHANGED <<solverVars, fixedVars, process, self_solution, logs, solution_data, recvd,
                   tornDown, channelVars, wpc, exitcode, sigint, sendLeft, historyVars>>

\* __del__(): process.close(), which raises for a process still running
DelClose ==
    /\ pc = "del_close"
    /\ process' = IF IsAlive THEN process ELSE "closed"
    /\ tornDown' = TRUE
    /\ pc' = "idle"
    /\ UNCHANGED <<solverVars, fixedVars, self_solution, logs, solution_data, recvd,
                   channelVars, workerVars, historyVars>>

\* ------------------------------------------------- harness: worker process

\* the worker reaches signal.signal(SIGINT, signal_handler)
WorkerInstallHandler ==
    /\ wpc = "boot"
    /\ wpc' = "init"
    /\ UNCHANGED <<solverVars, callerVars, channelVars, exitcode, sigint, sigterm, sendLeft,
                   historyVars>>

\* SIGINT before the handler is installed: KeyboardInterrupt ends the worker
WorkerSigintBoot ==
    /\ wpc = "boot"
    /\ sigint
    /\ wpc' = "exited"
    /\ exitcode' = "1"
    /\ sigint' = FALSE
    /\ sigterm' = FALSE
    /\ UNCHANGED <<solverVars, callerVars, channelVars, sendLeft, historyVars>>

\* signal_handler: SIGINT outside optimize() does nothing
WorkerSignalHandler ==
    /\ wpc \in {"init", "solve", "send", "finally"}
    /\ sigint
    /\ sigint' = FALSE
    /\ UNCHANGED <<solverVars, callerVars, channelVars, wpc, exitcode, sigterm, sendLeft,
                   historyVars>>

\* SIGTERM from terminate() ends the worker wherever it is
WorkerTerminated ==
    /\ wpc \notin {"none", "exited"}
    /\ sigterm
    /\ wpc' = "exited"
    /\ exitcode' = "-15"
    /\ sigint' = FALSE
    /\ sigterm' = FALSE
    /\ UNCHANGED <<solverVars, callerVars, channelVars, sendLeft, historyVars>>

\* solver = SEPAssignmentSolver(instance): config_options is not passed on
WorkerConstruct ==
    /\ wpc = "init"
    /\ Construct
    /\ wpc' = "solve"
    /\ UNCHANGED <<callerVars, channelVars, exitcode, sigint, sigterm, sendLeft, historyVars>>

\* the "Message" callback during optimize(): log_conn.send([msg]), which waits
\* while the pipe is full
WorkerLog ==
    /\ wpc = "solve"
    /\ spc = "built"
    /\ Len(sent_log) < MaxLogs
    /\ IF Len(log_pipe) < LogPipeCap
       THEN /\ log_pipe' = Append(log_pipe, <<LogLine(Len(sent_log) + 1)>>)
            /\ sent_log' = Append(sent_log, LogLine(Len(sent_log) + 1))
            /\ UNCHANGED wpc
       ELSE /\ wpc' = "log_blocked"
            /\ UNCHANGED <<log_pipe, sent_log>>
    /\ UNCHANGED <<solverVars, callerVars, solution_pipe, closes, exitcode, sigint, sigterm, sendLeft,
                   got_log, gsResult, everSolution, pendingAtCall, interruptedEarly, lastInterrupt, loop, verdict, stats>>

\* the waiting log_conn.send([msg]) goes on once the pipe has room
WorkerLogResume ==
    /\ wpc = "log_blocked"
    /\ Len(log_pipe) < LogPipeCap
    /\ log_pipe' = Append(log_pipe, <<LogLine(Len(sent_log) + 1)>>)
    /\ sent_log' = Append(sent_log, LogLine(Len(sent_log) + 1))
    /\ wpc' = "solve"
    /\ UNCHANGED <<solverVars, callerVars, solution_pipe, closes, exitcode, sigint, sigterm, sendLeft,
                   got_log, gsResult, everSolution, pendingAtCall, interruptedEarly, lastInterrupt, loop, verdict, stats>>

\* optimize() runs to its end
WorkerOptimizeCompleted ==
    /\ wpc = "solve"
    /\ OptimizeCompleted
    /\ UNCHANGED harnessVars

\* SIGINT during optimize() stops the engine
WorkerOptimizeInterrupted ==
    /\ wpc = "solve"
    /\ sigint
    /\ OptimizeInterrupted
    /\ sigint' = FALSE
    /\ UNCHANGED <<callerVars, channelVars, wpc, exitcode, sigterm, sendLeft, historyVars>>

\* solve() returns a Solution; solution_conn.send(solution.model_dump()) begins
WorkerReturnSolution ==
    /\ wpc = "solve"
    /\ ReturnSolution
    /\ wpc' = "send"
    /\ sendLeft' = MsgSize(model_dump(solution'))
    /\ UNCHANGED <<callerVars, channelVars, exitcode, sigint, sigterm, historyVars>>

\* solve() raises: the finally block is next
WorkerReturnRaises ==
    /\ wpc = "solve"
    /\ ReturnRaises
    /\ wpc' = "finally"
    /\ UNCHANGED <<callerVars, channelVars, exitcode, sigint, sigterm, sendLeft, historyVars>>

\* solution_conn.send(): writes what the pipe has room for, and waits for room
WorkerSend ==
    /\ wpc = "send"
    /\ solution_pipe < SolPipeCap
    /\ LET n == IF sendLeft <= SolPipeCap - solution_pipe
                THEN sendLeft ELSE SolPipeCap - solution_pipe
       IN /\ solution_pipe' = solution_pipe + n
          /\ sendLeft' = sendLeft - n
          /\ wpc' = IF sendLeft' = 0 THEN "finally" ELSE "send"
    /\ UNCHANGED <<solverVars, callerVars, log_pipe, closes, exitcode, sigint, sigterm, historyVars>>

\* finally: log_conn.close(), solution_conn.close(), and the process ends, with
\* exit code 1 when solve() raised
WorkerFinally ==
    /\ wpc = "finally"
    /\ wpc' = "exited"
    /\ exitcode' = IF spc = "raised" THEN "1" ELSE "0"
    /\ sigint' = FALSE
    /\ sigterm' = FALSE
    /\ closes' = [e \in ConnectionEnds |-> IF e \in WorkerEnds THEN closes[e] + 1 ELSE closes[e]]
    /\ UNCHANGED <<solverVars, callerVars, log_pipe, solution_pipe, sendLeft, historyVars>>

Next ==
    \/ Start
    \/ Interrupt
    \/ GetLog
    \/ GetLogLoop
    \/ GetSolution
    \/ GetSolutionRecv
    \/ GetSolutionLoop
    \/ PollingLoopResult
    \/ Del
    \/ DelJoin
    \/ DelClose
    \/ WorkerInstallHandler
    \/ WorkerSigintBoot
    \/ WorkerSignalHandler
    \/ WorkerTerminated
    \/ WorkerConstruct
    \/ WorkerLog
    \/ WorkerLogResume
    \/ WorkerOptimizeCompleted
    \/ WorkerOptimizeInterrupted
    \/ WorkerReturnSolution
    \/ WorkerReturnRaises
    \/ WorkerSend
    \/ WorkerFinally

Spec == HarnessInit /\ [][Next]_allVars

\* a run of the page without the abort button: start(), then the loop of
\* get_log() and is_running() until the result is fetched, beside the worker
PageNext ==
    \/ Start
    \/ GetLog
    \/ GetLogLoop
    \/ PollingLoopResult
    \/ WorkerInstallHandler
    \/ WorkerConstruct
    \/ WorkerLog
    \/ WorkerLogResume
    \/ WorkerOptimizeCompleted
    \/ WorkerReturnSolution
    \/ WorkerReturnRaises
    \/ WorkerSend
    \/ WorkerFinally

\* the scheduler runs the worker process and the page's loop (time.sleep(0.1)
\* between two rounds): a step that stays possible is taken
PageFairness ==
    /\ WF_allVars(Start)
    /\ WF_allVars(GetLog)
    /\ WF_allVars(GetLogLoop)
    /\ WF_allVars(PollingLoopResult)
    /\ WF_allVars(WorkerInstallHandler)
    /\ WF_allVars(WorkerConstruct)
    /\ WF_allVars(WorkerLog)
    /\ WF_allVars(WorkerLogResume)
    /\ WF_allVars(WorkerOptimizeCompleted)
    /\ WF_allVars(WorkerReturnSolution)
    /\ WF_allVars(WorkerReturnRaises)
    /\ WF_allVars(WorkerSend)
    /\ WF_allVars(WorkerFinally)

PageSpec == HarnessInit /\ [][PageNext]_allVars /\ PageFairness

\* the pairs of a Solution, and the number of them that name project p
Pairs(sol) == Range(sol.assignments)
CountIn(sol, p) == Cardinality({ i \in DOMAIN sol.assignments : sol.assignments[i][2] = p })

\* ------------------------------------------- verification of a Solution

\* the Solutions handed to the verification: up to MaxAssignments pairs of a
\* student id (those of the Instance and one more) and a project id
CandidatePairs == (0 .. Len(HarnessStudents)) \X {0, 1}
CandidateSolutions ==
    { Solution(a) : a \in UNION { [1 .. n -> CandidatePairs] : n \in 0 .. MaxAssignments } }

\* student_lookup = {student.id: student for student in instance.students}
student_lookup(inst) == { st.id : st \in Range(inst.students) }

\* if not any(student.programing_skills[lang] >= 1 for student in students_in_project),
\* for a project that requires the language
RequiredSkillMissing(inst, sol) ==
    \E pr \in Range(inst.projects) : \E k \in DOMAIN inst.programming_languages :
        /\ pr.language_requirements[k] = 1
        /\ ~ \E a \in Pairs(sol) :
               /\ a[2] = pr.id
               /\ StudentOf(inst, a[1]).programing_skills[inst.programming_languages[k]] >= 1

\* the verification of __main__, and the dump of the Solution to solution.json
\* when nothing was raised
Verify(inst, sol) ==
    IF sol = None THEN "AssertionError"
    ELSE IF Len(sol.assignments) # Len(inst.students) THEN "AssertionError"
    ELSE IF \E a \in Pairs(sol) : a[1] \notin student_lookup(inst) THEN "KeyError"
    ELSE IF RequiredSkillMissing(inst, sol) THEN "AssertionError"
    ELSE "exported"

\* the page: SolutionStatCalculator(instance, solution).printStats(), whose
\* counts look every student id up in the Instance, then the dataframe
Display(inst, sol) ==
    IF sol = None THEN "AttributeError"
    ELSE IF \E a \in Pairs(sol) : a[1] \notin student_lookup(inst) THEN "IndexError"
    ELSE "displayed"

VerifyInit ==
    /\ instance \in HarnessInstances
    /\ config_options = None
    /\ spc = "new"
    /\ vars = {}
    /\ status = "LOADED"
    /\ solCount = 0
    /\ X = {}
    /\ solution \in CandidateSolutions
    /\ HarnessNew

\* __main__: the assertions on the Solution, then solution.json
MainVerification ==
    /\ verdict = "none"
    /\ verdict' = Verify(instance, solution)
    /\ UNCHANGED <<solverVars, callerVars, channelVars, workerVars, sent_log, got_log, gsResult,
                   everSolution, pendingAtCall, interruptedEarly, lastInterrupt, loop, stats>>

\* the page: statistics and display of the Solution
PageResult ==
    /\ verdict = "none"
    /\ verdict' = Display(instance, solution)
    /\ UNCHANGED <<solverVars, callerVars, channelVars, workerVars, sent_log, got_log, gsResult,
                   everSolution, pendingAtCall, interruptedEarly, lastInterrupt, loop, stats>>

VerifyNext ==
    \/ MainVerification
    \/ PageResult

VerifySpec == VerifyInit /\ [][VerifyNext]_allVars


\* ------------------------------------------------ SolutionStatCalculator

\* a method returning a value, and a method raising an exception
Returned(v) == [value |-> v]
Raised(e) == [raised |-> e]

\* ids of the students of the Instance, and the indices of its list of projects
StudentIds(inst) == { inst.students[i].id : i \in DOMAIN inst.students }
ProjectIndices(inst) == 0 .. (Len(inst.projects) - 1)

\* the first assignment, in the order of the list, that a loop cannot handle
FirstIn(S) == CHOOSE i \in S : \A j \in S : i <= j

\* a preferred count that counts the preferred projects in use, not the assignments
count_preferred_projects(inst, sol) ==
    LET a == sol.assignments
    IN Returned(Cardinality({ a[i][2] : i \in { j \in DOMAIN a :
                                  a[j][2] \in StudentOf(inst, a[j][1]).projects } }))

\* count_preferred_assignments(): the assignments whose project is in the
\* projects of the student; [...][0] of an unknown student raises IndexError
count_preferred_assignments(inst, sol) ==
    LET a == sol.assignments
    IN IF \E i \in DOMAIN a : a[i][1] \notin StudentIds(inst)
       THEN Raised("IndexError")
       ELSE Returned(Cardinality({ i \in DOMAIN a : a[i][2] \in StudentOf(inst, a[i][1]).projects }))

\* count_disliked_assignments(): the same with the negatives of the student
count_disliked_assignments(inst, sol) ==
    LET a == sol.assignments
    IN IF \E i \in DOMAIN a : a[i][1] \notin StudentIds(inst)
       THEN Raised("IndexError")
       ELSE Returned(Cardinality({ i \in DOMAIN a : a[i][2] \in StudentOf(inst, a[i][1]).negatives }))

\* count_difference_from_optimal_size(): optimal_size is filled by position in
\* the list of projects, student_count is indexed by the assigned project id
count_difference_from_optimal_size(inst, sol) ==
    LET a == sol.assignments
        optimal_size == [i \in ProjectIndices(inst) |-> inst.projects[i + 1].opt]
        student_count == [k \in ProjectIndices(inst) |->
                             Cardinality({ i \in DOMAIN a : a[i][2] = k })]
    IN IF \E i \in DOMAIN a : a[i][2] \notin ProjectIndices(inst)
       THEN Raised("IndexError")
       ELSE Returned([project \in 1 .. Len(inst.projects) |->
                         Abs(student_count[project - 1] - optimal_size[project - 1])])

\* count_skillDiff_per_project(): programmers_count and writers_count are
\* indexed by the assigned project id
count_skillDiff_per_project(inst, sol) ==
    LET a == sol.assignments
        bad == { i \in DOMAIN a : a[i][1] \notin StudentIds(inst) \/ a[i][2] \notin ProjectIndices(inst) }
        programmers_count == [k \in ProjectIndices(inst) |->
            Cardinality({ i \in DOMAIN a : a[i][2] = k /\ StudentOf(inst, a[i][1]).skill = 0 })]
        writers_count == [k \in ProjectIndices(inst) |->
            Cardinality({ i \in DOMAIN a : a[i][2] = k /\ StudentOf(inst, a[i][1]).skill = 1 })]
    IN IF bad # {}
       THEN IF a[FirstIn(bad)][1] \notin StudentIds(inst) THEN Raised("KeyError")
            ELSE Raised("IndexError")
       ELSE Returned([project \in 1 .. Len(inst.projects) |->
                         Abs(programmers_count[project - 1] - writers_count[project - 1])])

\* a project covers its required languages: each has a student of level >= 2
\* among the students assigned to the project
Covers(inst, sol, pr) ==
    \A k \in DOMAIN inst.programming_languages :
        pr.language_requirements[k] = 1 =>
            \E i \in DOMAIN sol.assignments :
                /\ sol.assignments[i][2] = pr.id
                /\ \E st \in Range(inst.students) :
                      /\ st.id = sol.assignments[i][1]
                      /\ st.programing_skills[inst.programming_languages[k]] >= 2

\* a coverage count that takes a project without students for not covered
count_groups_with_students(inst, sol) ==
    Returned(Cardinality({ j \in DOMAIN inst.projects :
                             /\ CountIn(sol, inst.projects[j].id) > 0
                             /\ Covers(inst, sol, inst.projects[j]) }))

\* count_groups_min_2_skilled(): the projects where every required language has
\* a student of level >= 2 among those whose assigned project is project.id
count_groups_min_2_skilled(inst, sol) ==
    LET a == sol.assignments
        students_in_project(pr) == { i \in DOMAIN a : a[i][2] = pr.id }
        sufficient_advanced(pr) ==
            \A k \in DOMAIN inst.programming_languages :
                pr.language_requirements[k] = 1 =>
                    \E i \in students_in_project(pr) :
                        StudentOf(inst, a[i][1]).programing_skills[inst.programming_languages[k]] >= 2
    IN IF \E jp \in DOMAIN inst.projects : \E i \in students_in_project(inst.projects[jp]) :
              a[i][1] \notin StudentIds(inst)
       THEN Raised("KeyError")
       ELSE Returned(Cardinality({ jp \in DOMAIN inst.projects : sufficient_advanced(inst.projects[jp]) }))

\* sum(student.programing_skills.values())
SkillSum(st) == SumF(st.programing_skills, DOMAIN st.programing_skills)

\* a potential use that counts the levels in every language, required or not
potential_use_every_language(inst, sol) ==
    LET a == sol.assignments
    IN Returned(<< SumF([i \in DOMAIN a |-> SkillSum(StudentOf(inst, a[i][1]))], DOMAIN a),
                   SumF([i \in DOMAIN inst.students |-> SkillSum(inst.students[i])],
                        DOMAIN inst.students) >>)

\* potential_use(): the project is instance.projects[assigned_project]
potential_use(inst, sol) ==
    LET a == sol.assignments
        langs == DOMAIN inst.programming_languages
        bad == { i \in DOMAIN a : a[i][2] \notin ProjectIndices(inst) \/ a[i][1] \notin StudentIds(inst) }
        used(i) ==
            SumF([k \in langs |->
                     IF inst.projects[a[i][2] + 1].language_requirements[k] # 0
                     THEN StudentOf(inst, a[i][1]).programing_skills[inst.programming_languages[k]]
                     ELSE 0], langs)
        used_potential == SumF([i \in DOMAIN a |-> used(i)], DOMAIN a)
        overall_potential ==
            SumF([i \in DOMAIN inst.students |-> SkillSum(inst.students[i])], DOMAIN inst.students)
    IN IF bad # {}
       THEN IF a[FirstIn(bad)][2] \notin ProjectIndices(inst) THEN Raised("IndexError")
            ELSE Raised("KeyError")
       ELSE Returned(<<used_potential, overall_potential>>)

\* printStats(): the six methods are called in turn, then
\* len(self.instance.students) - preferred_count - disliked_count is printed
printStats(inst, sol) ==
    LET calls == << count_preferred_assignments(inst, sol),
                    count_disliked_assignments(inst, sol),
                    count_skillDiff_per_project(inst, sol),
                    count_difference_from_optimal_size(inst, sol),
                    count_groups_min_2_skilled(inst, sol),
                    potential_use(inst, sol) >>
        raising == { i \in DOMAIN calls : "raised" \in DOMAIN calls[i] }
    IN IF raising # {}
       THEN calls[FirstIn(raising)]
       ELSE Returned(Len(inst.students) - calls[1].value - calls[2].value)

\* the value a method returns for the calculator's instance and solution
Statistic(m, inst, sol) ==
    CASE m = "count_preferred_assignments" -> count_preferred_assignments(inst, sol)
      [] m = "count_disliked_assignments" -> count_disliked_assignments(inst, sol)
      [] m = "count_difference_from_optimal_size" -> count_difference_from_optimal_size(inst, sol)
      [] m = "count_skillDiff_per_project" -> count_skillDiff_per_project(inst, sol)
      [] m = "count_groups_min_2_skilled" -> count_groups_min_2_skilled(inst, sol)
      [] m = "potential_use" -> potential_use(inst, sol)
      [] m = "printStats" -> printStats(inst, sol)

\* the record of a call, repeated calls of one method counted up to MaxCalls
Called(m, result) ==
    [method |-> m, result |-> result,
     calls |-> IF stats = NotCalled \/ stats.method # m THEN 1
               ELSE IF stats.calls < MaxCalls THEN stats.calls + 1 ELSE MaxCalls]

\* what the last call returned when it was a call of method m
ResultOf(m) == IF stats # NotCalled /\ stats.method = m THEN stats.result ELSE NotCalled

\* a call of a method that uses up solution.assignments while it iterates
CallStatisticConsuming(m) ==
    /\ solution # None
    /\ stats' = Called(m, Statistic(m, instance, solution))
    /\ solution' = Solution(<< >>)
    /\ UNCHANGED <<instance, spc, vars, status, solCount, X, callerVars, channelVars, workerVars,
                   sent_log, got_log, gsResult, everSolution, pendingAtCall, interruptedEarly,
                   lastInterrupt, loop, verdict>>

\* a call of one method of SolutionStatCalculator(instance, solution): it
\* assigns to locals only
CallStatistic(m) ==
    /\ solution # None
    /\ stats' = Called(m, Statistic(m, instance, solution))
    /\ UNCHANGED <<solverVars, callerVars, channelVars, workerVars, sent_log, got_log, gsResult,
                   everSolution, pendingAtCall, interruptedEarly, lastInterrupt, loop, verdict>>

CountPreferredAssignments == CallStatistic("count_preferred_assignments")
CountDislikedAssignments == CallStatistic("count_disliked_assignments")
CountDifferenceFromOptimalSize == CallStatistic("count_difference_from_optimal_size")
CountSkillDiffPerProject == CallStatistic("count_skillDiff_per_project")
CountGroupsMin2Skilled == CallStatistic("count_groups_min_2_skilled")
PotentialUse == CallStatistic("potential_use")
PrintStats == CallStatistic("printStats")

StatisticsNext ==
    \/ CountPreferredAssignments
    \/ CountDislikedAssignments
    \/ CountDifferenceFromOptimalSize
    \/ CountSkillDiffPerProject
    \/ CountGroupsMin2Skilled
    \/ PotentialUse
    \/ PrintStats

\* students for the statistics: one of two dispositions, a role, level 0 or 2
StatisticsProfiles ==
    { n \in ProfileIdx :
        /\ StudentProfile(n).projects # {}
        /\ \A l \in DOMAIN StudentProfile(n).programing_skills :
              StudentProfile(n).programing_skills[l] # 1 }

\* Instances of two students whose project ids are the positions in the list of
\* projects, as the generators number them: project 1 requires the language
StatisticsProjects ==
    << Project(0, [min |-> 0, opt |-> 1, max |-> 2, language_requirements |-> <<0>>]),
       Project(1, [min |-> 0, opt |-> 0, max |-> 2, language_requirements |-> <<1>>]) >>

StatisticsInstances ==
    { [students |-> [i \in 1 .. 2 |-> Student(i - 1, StudentProfile(f[i]))],
       projects |-> StatisticsProjects,
       programming_languages |-> programming_languages] :
        f \in { g \in [1 .. 2 -> StatisticsProfiles] : g[1] <= g[2] } }

\* the Solutions over an Instance: up to MaxAssignments pairs of a student id
\* and a project id of the Instance
SolutionsOver(inst) ==
    { Solution(a) : a \in UNION { [1 .. n -> StudentIds(inst) \X { pr.id : pr \in Range(inst.projects) }] :
                                      n \in 0 .. MaxAssignments } }

StatisticsInit ==
    /\ instance \in StatisticsInstances
    /\ spc = "new"
    /\ vars = {}
    /\ status = "LOADED"
    /\ solCount = 0
    /\ X = {}
    /\ solution \in SolutionsOver(instance)
    /\ config_options = None
    /\ HarnessNew

StatisticsSpec == StatisticsInit /\ [][StatisticsNext]_allVars

\* Instances whose two projects carry any two distinct ids out of 0 .. 2, in
\* either order; the first project has an opt of 1, the second of 0
AnyIdInstances ==
    { [students |-> [i \in 1 .. 2 |->
                        Student(i - 1, [projects |-> {}, negatives |-> {}, skill |-> r[i],
                                        programing_skills |-> Lang(0)])],
       projects |-> << Project(ids[1], [min |-> 0, opt |-> 1, max |-> 2, language_requirements |-> <<0>>]),
                       Project(ids[2], [min |-> 0, opt |-> 0, max |-> 2, language_requirements |-> <<0>>]) >>,
       programming_languages |-> programming_languages] :
        r \in [1 .. 2 -> {0, 1}], ids \in { f \in [1 .. 2 -> 0 .. 2] : f[1] # f[2] } }

AnyIdInit ==
    /\ instance \in AnyIdInstances
    /\ spc = "new"
    /\ vars = {}
    /\ status = "LOADED"
    /\ solCount = 0
    /\ X = {}
    /\ solution \in SolutionsOver(instance)
    /\ config_options = None
    /\ HarnessNew

AnyIdSpec == AnyIdInit /\ [][StatisticsNext]_allVars

\* ------------------------------------------------------------- scenarios

\* scenario A: three students who all prefer the one project, which has min 1,
\* max 3 and requires no language; roles, levels and opt are free
ScenarioAInstances ==
    { [students |-> [i \in 1 .. 3 |->
                        Student(i - 1, [projects |-> {0}, negatives |-> {}, skill |-> r[i],
                                        programing_skills |-> Lang(lv[i])])],
       projects |-> << Project(0, [min |-> 1, opt |-> o, max |-> 3, language_requirements |-> <<0>>]) >>,
       programming_languages |-> programming_languages] :
        r \in { g \in [1 .. 3 -> {0, 1}] : g[1] <= g[2] /\ g[2] <= g[3] },
        lv \in [1 .. 3 -> {0, 2}], o \in 1 .. 3 }

\* scenario B: students 0 and 1 prefer project 0, which has max 1; a third
\* student who dislikes project 0 or project 1 may be there (others lists the
\* project each further student dislikes), project 0 may require the language,
\* project 1 may have a min of 2
ScenarioBStudents(lv, others) ==
    << Student(0, [projects |-> {0}, negatives |-> {}, skill |-> 0, programing_skills |-> Lang(lv[1])]),
       Student(1, [projects |-> {0}, negatives |-> {}, skill |-> 1, programing_skills |-> Lang(lv[2])]) >>
    \o [i \in DOMAIN others |->
           Student(1 + i, [projects |-> {}, negatives |-> {others[i]}, skill |-> 0,
                           programing_skills |-> Lang(1)])]

ScenarioBInstances ==
    { [students |-> ScenarioBStudents(lv, others),
       projects |-> << Project(0, [min |-> 0, opt |-> 1, max |-> 1, language_requirements |-> <<req>>]),
                       Project(1, [min |-> mn, opt |-> 1, max |-> 2, language_requirements |-> <<0>>]) >>,
       programming_languages |-> programming_languages] :
        lv \in [1 .. 2 -> {0, 1}], others \in { << >>, <<0>>, <<1>> }, req \in {0, 1}, mn \in {0, 2} }

ScenarioInit ==
    /\ instance \in ScenarioAInstances \cup ScenarioBInstances
    /\ SolverNew
    /\ config_options = None
    /\ HarnessNew

\* solve(), then the statistics of the returned Solution
ScenarioNext ==
    \/ SolverNext
    \/ CountPreferredAssignments
    \/ PrintStats

ScenarioSpec == ScenarioInit /\ [][ScenarioNext]_allVars

\* ---------------------------------------------- a further preferred project

\* the value objective 2 (priority 5) has at the optimum: every optimal
\* assignment has it
Tier2Value(inst, optimal) == Max({ Objective2(inst, Y) : Y \in optimal })

\* student s is assigned to a project of s.projects
PreferredAssigned(inst, Y, s) ==
    \E v \in Y : v[1] = s /\ v[2] \in StudentOf(inst, s).projects
InEvery(inst, optimal, s) == \A Y \in optimal : PreferredAssigned(inst, Y, s)
InSome(inst, optimal, s) == \E Y \in optimal : PreferredAssigned(inst, Y, s)
InEveryOptimal(inst, s) == InEvery(inst, Optimal(inst), s)

\* project p is appended to Student.projects of the i-th student
AddPreferredTo(i, p) ==
    /\ p \notin instance.students[i].projects
    /\ instance' = [instance EXCEPT !.students[i].projects = @ \cup {p}]
    /\ UNCHANGED <<spc, vars, status, solCount, X, solution, harnessVars>>

AddPreferred ==
    \E i \in DOMAIN instance.students : \E k \in DOMAIN instance.projects :
        AddPreferredTo(i, instance.projects[k].id)

\* Instances of programmers whose level in the language is 0 or 2, with a
\* second project that holds two students
PreferenceInstances ==
    { inst \in Instances :
        /\ inst.projects[2].max = 2
        /\ \A st \in Range(inst.students) :
              st.skill = 0 /\ \A l \in DOMAIN st.programing_skills : st.programing_skills[l] \in {0, 2} }

PreferenceInit ==
    /\ instance \in PreferenceInstances
    /\ SolverNew
    /\ config_options = None
    /\ HarnessNew

PreferenceSpec == PreferenceInit /\ [][AddPreferred]_allVars

\* solve() on these Instances, completed or interrupted
CoverageSpec == PreferenceInit /\ [][SolverNext]_allVars

\* ------------------------------------------------- properties of solve()

\* C1: every Solution returned by solve() gives each project of the Instance a
\* number of students between the project's min and max.
C1_CapacityRespected ==
    spc = "returned" =>
        \A pr \in Range(instance.projects) :
            pr.min <= CountIn(solution, pr.id) /\ CountIn(solution, pr.id) <= pr.max

\* a returned Solution that fills a project to its max, leaves a student out and
\* holds another project at a min of 1
C1_Witness ==
    /\ spc = "returned"
    /\ Len(solution.assignments) < Len(instance.students)
    /\ \E pr \in Range(instance.projects) : pr.max = 1 /\ CountIn(solution, pr.id) = 1
    /\ \E pr \in Range(instance.projects) : pr.min = 1 /\ CountIn(solution, pr.id) = 1

\* C2: the engine's solution sets at most one assignment variable per student, and
\* the returned Solution holds each student id in at most one pair.
C2_StudentAtMostOnce ==
    /\ solCount > 0 =>
          \A st \in Range(instance.students) : ProjectsOfStudent(X, st.id) <= 1
    /\ spc = "returned" =>
          /\ \A i, j \in DOMAIN solution.assignments :
                solution.assignments[i][1] = solution.assignments[j][1] => i = j
          /\ Pairs(solution) = X

\* a returned Solution with two students in one project
C2_Witness ==
    /\ spc = "returned"
    /\ \E i, j \in DOMAIN solution.assignments :
          /\ i # j
          /\ solution.assignments[i][2] = solution.assignments[j][2]

\* C3: in every returned Solution each project has, for each language it
\* requires, an assigned student with level >= 1 in that language.
C3_RequiredLanguageHeld ==
    spc = "returned" =>
        \A pr \in Range(instance.projects) : \A k \in LangIdx :
            pr.language_requirements[k] = 1 =>
                \E a \in Pairs(solution) :
                    /\ a[2] = pr.id
                    /\ StudentOf(instance, a[1]).programing_skills[instance.programming_languages[k]] >= 1

\* a returned Solution where a requiring project holds a beginner and the other
\* project holds a student without the language
C3_Witness ==
    /\ spc = "returned"
    /\ \E pr \in Range(instance.projects) :
          /\ pr.language_requirements[1] = 1
          /\ \A a \in Pairs(solution) : a[2] = pr.id =>
                StudentOf(instance, a[1]).programing_skills[instance.programming_languages[1]] = 1
    /\ \E a \in Pairs(solution) :
          StudentOf(instance, a[1]).programing_skills[instance.programming_languages[1]] = 0

Disliked(inst, Y) == { v \in Y : v[2] \in StudentOf(inst, v[1]).negatives }

\* C4: when some assignment satisfying the hard constraints has no (student,
\* disliked project) pair, the Solution of the completed optimization has none.
C4_DislikedAvoided ==
    (/\ spc = "returned"
     /\ status = "OPTIMAL"
     /\ \E Y \in Feasible(instance) : Disliked(instance, Y) = {})
        => Disliked(instance, Pairs(solution)) = {}

\* the six terms in the canonical order, and the lexicographic order: the terms
\* of Y from the n-th on are greater than those of the vector b
TermVector(inst, Y) == [n \in 0 .. 5 |-> ObjectiveN(inst, Y, n)]
RECURSIVE LexGreater(_, _, _, _)
LexGreater(inst, Y, b, n) ==
    IF n > 5 THEN FALSE
    ELSE \E a \in { ObjectiveN(inst, Y, n) } :
            IF a # b[n] THEN a > b[n] ELSE LexGreater(inst, Y, b, n + 1)

\* C5: the Solution of a completed optimization is lexicographically maximal
\* over the six terms in the canonical order: no assignment satisfying the hard
\* constraints is better in a term without being worse in an earlier one.
C5_Lexicographic ==
    []((spc = "returned" /\ status = "OPTIMAL") =>
          \A returned \in { TermVector(instance, Pairs(solution)) } :
              \A Y \in SUBSET AssignmentVariables(instance) :
                  HardConstraints(instance, Y) => ~ LexGreater(instance, Y, returned, 0))

\* a completed optimization that kept its skill coverage although an assignment
\* equal in the first two terms offered a smaller size deviation
C5_Witness ==
    /\ spc = "returned"
    /\ status = "OPTIMAL"
    /\ \E Y \in Feasible(instance) :
          /\ Objective1(instance, Y) = Objective1(instance, Pairs(solution))
          /\ Objective2(instance, Y) = Objective2(instance, Pairs(solution))
          /\ Objective3(instance, Y) < Objective3(instance, Pairs(solution))
          /\ Objective4(instance, Y) > Objective4(instance, Pairs(solution))

\* ---------------------------------------------- properties of the harness

\* C6: in the strict configuration no assignment variable exists for a pair
\* (s, p) with p disliked by s, and no Solution holds such a pair.
C6_StrictOmitsDisliked ==
    config_options = Strict =>
        /\ Disliked(instance, vars) = {}
        /\ spc = "returned" => Disliked(instance, Pairs(solution)) = {}

IsPrefix(a, b) == Len(a) <= Len(b) /\ \A i \in 1 .. Len(a) : a[i] = b[i]

C8_SolutionKept ==
    /\ everSolution => gsResult \notin {None, NotCalled}
    /\ gsResult \notin {None, NotCalled} =>
          /\ spc = "returned"
          /\ gsResult = Solution(solution.assignments)
          /\ recvd = MsgSize(model_dump(solution))
    /\ (pc \notin {"gs_recv", "gs_poll"} /\ gsResult = None) => ~ pendingAtCall

\* a get_solution() call that began with nothing pending has returned the
\* Solution an earlier call received
C8_Witness ==
    /\ pc = "idle"
    /\ everSolution
    /\ ~ pendingAtCall
    /\ gsResult = Solution(solution.assignments)
    /\ Len(gsResult.assignments) = 2

\* what the worker has put on its channels: the log lines, and the kind of the
\* result message
WorkerSent ==
    Range(sent_log) \cup (IF recvd + solution_pipe > 0 THEN {"Solution"} ELSE {})

MarkerSent == "completed" \in WorkerSent

\* a get_solution() call made now returns None
GetSolutionIsNone == ~ SolPoll /\ CacheSolution(self_solution, None) = None

\* C9: a worker that ended without a result shows is_running() False and
\* get_solution() None, and it has sent a "completed" marker exactly if it ended
\* after concluding that the Instance is infeasible.
C9_CrashDistinguishable ==
    (wpc = "exited" /\ process = "started" /\ spc # "returned") =>
        /\ is_running = "False"
        /\ GetSolutionIsNone
        /\ MarkerSent <=> status = "INFEASIBLE"

\* C10: when interrupt() was called on a live worker whose engine had not
\* finished and held no incumbent when it stopped, then after __del__
\* is_running() is False, get_solution() returns None and no "completed" marker
\* was sent, whereas a worker that ended after concluding infeasibility has sent
\* the marker.
C10_ScenarioC ==
    /\ (/\ interruptedEarly
        /\ tornDown
        /\ pc = "idle"
        /\ ~ (status = "INTERRUPTED" /\ solCount > 0))
          => /\ is_running = "False"
             /\ GetSolutionIsNone
             /\ ~ MarkerSent
    /\ (wpc = "exited" /\ status = "INFEASIBLE") => MarkerSent

\* SEPSolverProcess.get_current_objective_value() and get_current_bound()
get_current_objective_value == shared_objective
get_current_bound == shared_bound

\* C11: once the engine of the worker has reported an incumbent,
\* get_current_objective_value() no longer returns its initial value: the worker
\* has written the shared objective slot.
C11_SlotsFollowEngine ==
    (process # "initial" /\ solCount > 0) => get_current_objective_value # "inf"

\* C12: a worker that has ended without being terminated ended after its engine
\* returned: no interrupt, at whatever moment after start(), ends it earlier.
C12_InterruptNoCrash ==
    (wpc = "exited" /\ exitcode # "-15") => spc \in {"returned", "raised"}

\* the worker has put its outcome into the result channel
OutcomeWritten == recvd + solution_pipe > 0

\* C13: a worker that ended after its engine returned, by completion or by a
\* stop request, with a Solution or with solve() raising, has written its outcome
\* into the result channel and has closed its log and result ends once; it closes
\* them only when nothing of the outcome is left to write.
C13_OutcomeThenClose ==
    /\ (\E e \in WorkerEnds : closes[e] > 0) => sendLeft = 0
    /\ (wpc = "exited" /\ exitcode # "-15" /\ spc \in {"returned", "raised"}) =>
          /\ \A e \in WorkerEnds : closes[e] = 1
          /\ OutcomeWritten

C15_Disposal ==
    tornDown =>
        /\ wpc \in {"none", "exited"}
        /\ \A e \in ConnectionEnds : closes[e] <= 1

\* C16: when the worker has ended without a Solution and nobody interrupted
\* it, the page's polling loop ends without an exception.
C16_LoopRaisesNothing ==
    (lastInterrupt = "none" /\ ~ tornDown) => loop \in {"polling", "finished"}

\* an Instance with a project whose min is above its max
MinAboveMax(inst) == \E k \in DOMAIN inst.projects : inst.projects[k].min > inst.projects[k].max

\* C17: for an Instance with a project whose min is above its max the engine is
\* never asked to optimize: the model is rejected before any solve.
C17_RejectedBeforeSolve == MinAboveMax(instance) => status = "LOADED"

\* a project requires a language of the Instance's list in which every student
\* has level 0
ScenarioD(inst) ==
    \E k \in DOMAIN inst.projects : \E l \in DOMAIN inst.programming_languages :
        /\ inst.projects[k].language_requirements[l] = 1
        /\ \A i \in DOMAIN inst.students :
              inst.students[i].programing_skills[inst.programming_languages[l]] = 0

\* C18: in scenario D, with the language in the Instance's list, solve() ends
\* without a Solution and without an exception.
C18_ScenarioDClean == ScenarioD(instance) => spc \notin {"returned", "raised"}

\* C20: a Solution returned by solve() after an optimize() that ran to its end
\* has as many assignments as the Instance has students, and every student id
\* in it is the id of a student of the Instance.
C20_EveryStudentAssigned ==
    (spc = "returned" /\ status = "OPTIMAL") =>
        /\ Len(solution.assignments) = Len(instance.students)
        /\ \A a \in Pairs(solution) : \E st \in Range(instance.students) : st.id = a[1]

\* a project outside [min, max], a student id twice, or a required language
\* without an assigned student of nonzero level
CapacityBroken(inst, sol) ==
    \E pr \in Range(inst.projects) :
        CountIn(sol, pr.id) < pr.min \/ CountIn(sol, pr.id) > pr.max
UniquenessBroken(sol) ==
    \E i, j \in DOMAIN sol.assignments : i # j /\ sol.assignments[i][1] = sol.assignments[j][1]
SkillCoverageBroken(inst, sol) ==
    \E pr \in Range(inst.projects) : \E k \in DOMAIN inst.programming_languages :
        /\ pr.language_requirements[k] = 1
        /\ ~ \E a \in Pairs(sol) : \E st \in Range(inst.students) :
               /\ a[2] = pr.id
               /\ st.id = a[1]
               /\ st.programing_skills[inst.programming_languages[k]] >= 1

\* C19: a Solution that breaks capacity, uniqueness or skill coverage is never
\* exported by the verification nor displayed by the page.
C19_BrokenNeverPassedOn ==
    verdict \in {"exported", "displayed"} =>
        /\ ~ CapacityBroken(instance, solution)
        /\ ~ UniquenessBroken(solution)
        /\ ~ SkillCoverageBroken(instance, solution)

\* scenario A, and the Solution that puts all three students into project 0
ScenarioA == instance \in ScenarioAInstances
AllThreeInProject0 == Pairs(solution) = { <<0, 0>>, <<1, 0>>, <<2, 0>> }

\* C21: in scenario A the Solution of a completed optimization assigns all three
\* students to the project, and count_preferred_assignments() returns 3.
C21_ScenarioA ==
    (ScenarioA /\ spc = "returned" /\ status = "OPTIMAL") =>
        /\ AllThreeInProject0
        /\ Len(solution.assignments) = 3
        /\ ResultOf("count_preferred_assignments") \in { NotCalled, Returned(3) }

\* scenario A solved to the end and the preferred count taken
C21_Witness ==
    /\ ScenarioA
    /\ spc = "returned"
    /\ status = "OPTIMAL"
    /\ ResultOf("count_preferred_assignments") = Returned(3)

\* the pairs of students who both prefer a project with max 1, and
\* how many of the two the Solution assigns to it
PreferredByTwo(inst) ==
    { c \in Range(inst.projects) \X Range(inst.students) \X Range(inst.students) :
        /\ c[1].max = 1
        /\ c[2].id < c[3].id
        /\ c[1].id \in c[2].projects
        /\ c[1].id \in c[3].projects }
AssignedOfTwo(sol, c) == Cardinality(Pairs(sol) \cap { <<c[2].id, c[1].id>>, <<c[3].id, c[1].id>> })

\* the two are the only students, neither dislikes the project, and the one
\* other project has a min of at most 1
OnlyTheTwo(inst, c) ==
    /\ Len(inst.students) = 2
    /\ Len(inst.projects) = 2
    /\ c[1].id \notin c[2].negatives \cup c[3].negatives
    /\ \A pr \in Range(inst.projects) : pr.min <= 1

C23_Monotone ==
    [][\A i \in DOMAIN instance.students : \A k \in DOMAIN instance.projects :
         AddPreferredTo(i, instance.projects[k].id) =>
            \A before \in { Optimal(instance) } : \A after \in { Optimal(instance') } :
                LET s == instance.students[i].id
                IN before # {} =>
                      /\ after # {}
                      /\ Tier2Value(instance', after) >= Tier2Value(instance, before)
                      /\ InEvery(instance, before, s) => InEvery(instance', after, s)
                      /\ InSome(instance, before, s) => InSome(instance', after, s)]_allVars

\* a student with a second preferred project, added to the list, who is
\* assigned to a preferred project in every optimal assignment
C23_Witness ==
    /\ Feasible(instance) # {}
    /\ \E st \in Range(instance.students) :
          /\ Cardinality(st.projects) = 2
          /\ InEveryOptimal(instance, st.id)

RequiredAndHeld(inst, sol) ==
    { c \in { pr.id : pr \in Range(inst.projects) } \X LangIdx :
        /\ \E pr \in Range(inst.projects) : pr.id = c[1] /\ pr.language_requirements[c[2]] = 1
        /\ \E i \in DOMAIN sol.assignments :
              /\ sol.assignments[i][2] = c[1]
              /\ \E st \in Range(inst.students) :
                    /\ st.id = sol.assignments[i][1]
                    /\ st.programing_skills[inst.programming_languages[c[2]]] >= 2 }

SizeDeviations(inst, sol) ==
    [j \in 1 .. Len(inst.projects) |-> Abs(CountIn(sol, inst.projects[j].id) - inst.projects[j].opt)]

\* number of pairs of a project whose student has a role
CountRole(inst, sol, p, role) ==
    Cardinality({ i \in DOMAIN sol.assignments :
                    /\ sol.assignments[i][2] = p
                    /\ \E st \in Range(inst.students) : st.id = sol.assignments[i][1] /\ st.skill = role })

\* |count(role 0, p) - count(role 1, p)| for the projects, in the order of the list
RoleImbalances(inst, sol) ==
    [j \in 1 .. Len(inst.projects) |->
        Abs(CountRole(inst, sol, inst.projects[j].id, 0) - CountRole(inst, sol, inst.projects[j].id, 1))]

\* C26: whatever the ids of the projects and their order in the list,
\* count_difference_from_optimal_size() returns |assigned_count(p) - opt(p)| and
\* count_skillDiff_per_project() returns |count(role 0, p) - count(role 1, p)|
\* for every project p.
C26_PerProject ==
    /\ ResultOf("count_difference_from_optimal_size") \in
          { NotCalled, Returned(SizeDeviations(instance, solution)) }
    /\ ResultOf("count_skillDiff_per_project") \in
          { NotCalled, Returned(RoleImbalances(instance, solution)) }

\* C27: count_groups_min_2_skilled() returns the number of projects whose every
\* required language is held at level >= 2 by a student assigned to the project;
\* a project that requires no language is counted, also without students, and a
\* project that requires a language and has no student is not.
C27_GroupsCovered ==
    ResultOf("count_groups_min_2_skilled") # NotCalled =>
        /\ ResultOf("count_groups_min_2_skilled") =
               Returned(Cardinality({ j \in DOMAIN instance.projects :
                                        Covers(instance, solution, instance.projects[j]) }))
        /\ \A pr \in Range(instance.projects) :
              /\ (\A k \in DOMAIN pr.language_requirements : pr.language_requirements[k] = 0) =>
                    Covers(instance, solution, pr)
              /\ ((\E k \in DOMAIN pr.language_requirements : pr.language_requirements[k] = 1)
                     /\ CountIn(solution, pr.id) = 0) => ~ Covers(instance, solution, pr)

\* the count is 1 for a Solution that leaves both projects empty: the project
\* without a requirement is counted, the requiring project is not
C27_Witness ==
    /\ solution = Solution(<< >>)
    /\ ResultOf("count_groups_min_2_skilled") = Returned(1)

\* the levels of the student of a pair in the languages that the project of the
\* pair requires
UsedBy(inst, pair) ==
    LET st == CHOOSE x \in Range(inst.students) : x.id = pair[1]
        pr == CHOOSE x \in Range(inst.projects) : x.id = pair[2]
        required == { k \in DOMAIN inst.programming_languages : pr.language_requirements[k] = 1 }
    IN SumF([k \in required |-> st.programing_skills[inst.programming_languages[k]]], required)

UsedPotential(inst, sol) ==
    SumF([i \in DOMAIN sol.assignments |-> UsedBy(inst, sol.assignments[i])], DOMAIN sol.assignments)

OverallPotential(inst) ==
    SumF([i \in DOMAIN inst.students |->
             SumF(inst.students[i].programing_skills, DOMAIN inst.students[i].programing_skills)],
         DOMAIN inst.students)

EachStudentAtMostOnce(sol) ==
    \A i, j \in DOMAIN sol.assignments :
        sol.assignments[i][1] = sol.assignments[j][1] => i = j

NeutralAssignments(inst, sol) ==
    Cardinality({ i \in DOMAIN sol.assignments :
                    \E st \in Range(inst.students) :
                        /\ st.id = sol.assignments[i][1]
                        /\ sol.assignments[i][2] \notin st.projects \cup st.negatives })

\* a Solution the model allows: no student twice, the hard constraints hold
AllowedByModel(inst, sol) ==
    /\ EachStudentAtMostOnce(sol)
    /\ Pairs(sol) \in Feasible(inst)

\* C29: for every Solution the model allows, also one that leaves students
\* without a project, the number of students with a neutral project that
\* printStats() reports is the number of pairs (s, p) with p neither in
\* s.projects nor in s.negatives.
C29_NeutralCount ==
    (ResultOf("printStats") # NotCalled /\ AllowedByModel(instance, solution)) =>
        ResultOf("printStats") = Returned(NeutralAssignments(instance, solution))

\* C30: under fair scheduling of the worker and of the page's loop, a worker
\* that has begun to send its Solution finishes sending and exits, whatever the
\* size of the Solution and the capacity of the result channel.
C30_WorkerExits == (wpc = "send") ~> (wpc = "exited")

====
